---- MODULE Spec2Model ----
(***************************************************************************)
(* Cherry AI LLM server: request validation (app/models/schemas.py), the   *)
(* navigation chatbot service (app/services/navigation_chatbot_service.py),*)
(* the Google AI Studio service (app/services/google_ai_service.py) and    *)
(* the HTTP handlers (app/api/endpoints/*.py) and the startup              *)
(* configuration (app/core/config.py).                                     *)
(*                                                                         *)
(* Spec serves one request at a time; SpecConcurrent holds MaxRequests     *)
(* requests in flight together.                                            *)
(*                                                                         *)
(* TEXT.  A Python str is a sequence of chunks.  A chunk is a run of n     *)
(* characters: whitespace ("ws"), characters that belong to no keyword     *)
(* ("txt"), or one occurrence of a literal of the source ("lit", named by  *)
(* w).  The Korean literals of the source are named by their romanised     *)
(* form; the comment next to each name gives the literal.                  *)
(*                                                                         *)
(* NUMBERS.  Coordinates are in units of 1/10000 degree, confidence scores *)
(* in tenths.                                                              *)
(***************************************************************************)
EXTENDS Integers, Sequences, FiniteSets, TLC

VARIABLES
    pc,        \* "starting": main.py is being imported; "aborted": the import
               \* raised; "idle": waiting for a call; "done": the handler
               \* has returned
    environ,   \* the environment variables (and .env) the process starts with
    inflight,  \* the requests being served together (SpecConcurrent)
    op,        \* the operation that ran last
    body,      \* the JSON body it was called with
    upstream,  \* what generate_content does when this call reaches it
    result,    \* what the handler returned or raised
    settings   \* the process-wide Settings object

vars == <<pc, environ, inflight, op, body, upstream, result, settings>>

-----------------------------------------------------------------------------
(* Bounds of the model *)

\* how many requests are in flight together
MaxRequests == 2

\* longest run of leading or trailing whitespace put around a message
MaxPad == 2

-----------------------------------------------------------------------------
(* Optional values: None is the empty tuple, a present value a 1-tuple *)

None == <<>>
Some(v) == <<v>>
IsSome(o) == o # <<>>
Val(o) == o[1]

-----------------------------------------------------------------------------
(* Python str *)

WS(n) == [k |-> "ws", n |-> n, w |-> ""]
TXT(n) == [k |-> "txt", n |-> n, w |-> ""]

\* number of characters of each literal of the source
LitLen(w) ==
    CASE w = "gileul ital" -> 5             \* '길을 이탈'
      [] w = "gileul ilheoss" -> 5          \* '길을 잃었'
      [] w = "jalmosdoen gil" -> 5          \* '잘못된 길'
      [] w = "gileul mos chaj" -> 6         \* '길을 못 찾'
      [] w = "beoseureul nohchyeoss" -> 6   \* '버스를 놓쳤'
      [] w = "jihacheoreul nohchyeoss" -> 7 \* '지하철을 놓쳤'
      [] w = "gyotongsudaneul nohchyeoss" -> 8  \* '교통수단을 놓쳤'
      [] w = "museowo" -> 3                 \* '무서워'
      [] w = "dowajuseyo" -> 5              \* '도와주세요'
      [] w = "gingeup" -> 2                 \* '긴급'
      [] w = "wiheom" -> 2                  \* '위험'
      [] w = "majnayo" -> 3                 \* '맞나요'
      [] w = "majneunga" -> 3               \* '맞는가'
      [] w = "jeonghwakhanga" -> 4          \* '정확한가'
      [] w = "sasiringa" -> 4               \* '사실인가'
      [] w = "uigyeon" -> 2                 \* '의견'
      [] w = "saenggak" -> 2                \* '생각'
      [] w = "seolmyeong" -> 2              \* '설명'
      [] w = "ihae" -> 2                    \* '이해'
      [] w = "allyeojuseyo" -> 5            \* '알려주세요'
      [] w = "mueosinga" -> 4               \* '무엇인가'
      [] w = "chai" -> 2                    \* '차이'
      [] w = "bigyo" -> 2                   \* '비교'
      [] w = "vs" -> 2
      [] w = "VS" -> 2
      [] w = "versus" -> 6
      [] w = "VERSUS" -> 6
      [] w = "Hello" -> 5
      [] w = "short wrapper" -> 28          \* "다음 질문에 대해 정확하고 간결하게 답변해주세요: "
      [] w = "long wrapper" -> 29           \* "다음 긴 질문에 대해 핵심만 간결하게 답변해주세요: "
      [] w = "..." -> 3
      [] w = "fact wrapper" -> 62
      [] w = "opinion wrapper" -> 34
      [] w = "explain wrapper" -> 31
      [] w = "compare wrapper" -> 32
      [] OTHER -> 1

LIT(w) == [k |-> "lit", n |-> LitLen(w), w |-> w]

\* len(s)
RECURSIVE StrLen(_)
StrLen(s) == IF s = <<>> THEN 0 ELSE Head(s).n + StrLen(Tail(s))

RECURSIVE lstrip(_)
lstrip(s) ==
    IF s = <<>> THEN <<>>
    ELSE IF Head(s).k = "ws" THEN lstrip(Tail(s)) ELSE s

RECURSIVE rstrip(_)
rstrip(s) ==
    IF s = <<>> THEN <<>>
    ELSE IF s[Len(s)].k = "ws" THEN rstrip(SubSeq(s, 1, Len(s) - 1)) ELSE s

\* str.strip(): the string without its leading and trailing whitespace
strip(s) == rstrip(lstrip(s))

\* str.lower(): only the ASCII literals have an upper-case form
LowerChunk(c) ==
    IF c.k = "lit" /\ c.w = "VS" THEN LIT("vs")
    ELSE IF c.k = "lit" /\ c.w = "VERSUS" THEN LIT("versus")
    ELSE c

lower(s) == [i \in 1..Len(s) |-> LowerChunk(s[i])]

\* keyword in s  (substring containment of a literal)
Contains(s, keyword) == \E i \in 1..Len(s) : s[i] = LIT(keyword)

\* bool(s) of a str
Truthy(s) == StrLen(s) > 0

-----------------------------------------------------------------------------
(* app/models/schemas.py *)

ChatRequest_min_length == 1
ChatRequest_max_length == 10000
NavigationChatRequest_min_length == 1
NavigationChatRequest_max_length == 1000

\* -90.0, 90.0, -180.0, 180.0 in units of 1/10000 degree
latitude_ge == -900000
latitude_le == 900000
longitude_ge == -1800000
longitude_le == 1800000

\* the outcome of a validator or of a call: a value, or a raised exception
Returned(v) == [raised |-> FALSE, value |-> Some(v), exc |-> <<>>]
Raised(e) == [raised |-> TRUE, value |-> None, exc |-> e]

\* mutant: the length bound checked on the trimmed value
StrConstraintOk_trimmed(v, min_length, max_length) ==
    StrLen(strip(v)) >= min_length /\ StrLen(strip(v)) <= max_length

\* Field(min_length=..., max_length=...): the constraint of a str field,
\* checked on the value as received
StrConstraintOk(v, min_length, max_length) ==
    StrLen(v) >= min_length /\ StrLen(v) <= max_length

\* mutant: gt/lt in place of ge/le
RangeConstraintOk_strict(v, ge, le) == v > ge /\ v < le

\* Field(ge=..., le=...)
RangeConstraintOk(v, ge, le) == v >= ge /\ v <= le

\* ChatRequest.validate_message
ChatRequest_validate_message(v) ==
    IF ~Truthy(strip(v))
    THEN Raised(<<"mesijineun bieoisseul su eopsseumnida.">>)
    ELSE Returned(strip(v))

\* class ChatRequest: the field constraint, then the validator
ChatRequest(b) ==
    LET m == IF StrConstraintOk(b.message, ChatRequest_min_length, ChatRequest_max_length)
             THEN ChatRequest_validate_message(b.message)
             ELSE Raised(<<"string length">>)
    IN  IF m.raised
        THEN [ok |-> FALSE, errors |-> {"message"}, obj |-> None]
        ELSE [ok |-> TRUE, errors |-> {}, obj |-> Some([message |-> Val(m.value)])]

\* LocationInfo.validate_latitude
validate_latitude(v) ==
    IF v < -900000 \/ v > 900000
    THEN Raised(<<"widoneun -90eseo 90 saiyeoya hamnida.">>)
    ELSE Returned(v)

\* LocationInfo.validate_longitude
validate_longitude(v) ==
    IF v < -1800000 \/ v > 1800000
    THEN Raised(<<"gyeongdoneun -180eseo 180 saiyeoya hamnida.">>)
    ELSE Returned(v)

\* class LocationInfo
LocationInfo(loc) ==
    LET lat == IF RangeConstraintOk(loc.latitude, latitude_ge, latitude_le)
               THEN validate_latitude(loc.latitude)
               ELSE Raised(<<"range">>)
        lon == IF RangeConstraintOk(loc.longitude, longitude_ge, longitude_le)
               THEN validate_longitude(loc.longitude)
               ELSE Raised(<<"range">>)
        errors == (IF lat.raised THEN {"location.latitude"} ELSE {})
                  \cup (IF lon.raised THEN {"location.longitude"} ELSE {})
    IN  IF errors # {}
        THEN [ok |-> FALSE, errors |-> errors, obj |-> None]
        ELSE [ok |-> TRUE, errors |-> {},
              obj |-> Some([latitude |-> Val(lat.value), longitude |-> Val(lon.value)])]

\* mutant: "if not v" in place of "if not v.strip()"
NavigationChatRequest_validate_message_untrimmed(v) ==
    IF ~Truthy(v)
    THEN Raised(<<"mesijineun bieoisseul su eopsseumnida.">>)
    ELSE Returned(strip(v))

\* NavigationChatRequest.validate_message
NavigationChatRequest_validate_message(v) ==
    IF ~Truthy(strip(v))
    THEN Raised(<<"mesijineun bieoisseul su eopsseumnida.">>)
    ELSE Returned(strip(v))

valid_modes == {"public_transport", "walking", "driving"}

\* mutant: the membership test is dropped
validate_transportation_mode_any(v) == Returned(v)

\* NavigationChatRequest.validate_transportation_mode
validate_transportation_mode(v) ==
    IF v \notin valid_modes
    THEN Raised(<<"jiwonhaji anneun idong sudanimnida.">>)
    ELSE Returned(v)

\* the default of the transportation_mode field
transportation_mode_default == "public_transport"

\* class NavigationChatRequest.  The fields of the object are the declared
\* ones; any other key of the body (such as "mode") is ignored.
NavigationChatRequest(b) ==
    LET m == IF StrConstraintOk(b.message, NavigationChatRequest_min_length,
                                NavigationChatRequest_max_length)
             THEN NavigationChatRequest_validate_message(b.message)
             ELSE Raised(<<"string length">>)
        loc == LocationInfo(b.location)
        tm == IF IsSome(b.transportation_mode)
              THEN validate_transportation_mode(Val(b.transportation_mode))
              ELSE Returned(transportation_mode_default)
        errors == (IF m.raised THEN {"message"} ELSE {})
                  \cup loc.errors
                  \cup (IF tm.raised THEN {"transportation_mode"} ELSE {})
    IN  IF errors # {}
        THEN [ok |-> FALSE, errors |-> errors, obj |-> None]
        ELSE [ok |-> TRUE, errors |-> {},
              obj |-> Some([message |-> Val(m.value),
                            location |-> Val(loc.obj),
                            destination_address |-> b.destination_address,
                            transportation_mode |-> Some(Val(tm.value)),
                            user_context |-> b.user_context])]

-----------------------------------------------------------------------------
(* app/services/navigation_chatbot_service.py *)

\* getattr on a model object: only the declared fields exist
HasAttr(obj, name) == name \in DOMAIN obj

\* str(e) of the AttributeError raised by reading a field the class lacks
AttributeError(cls, name) == <<"'", cls, "' object has no attribute '", name, "'">>

\* any(keyword in text for keyword in keywords)
AnyKeywordIn(keywords, text) == \E i \in 1..Len(keywords) : Contains(text, keywords[i])

HomeMode == "hom"   \* "홈"

\* ['길을 이탈', '길을 잃었', '잘못된 길', '길을 못 찾']
route_deviation_keywords ==
    <<"gileul ital", "gileul ilheoss", "jalmosdoen gil", "gileul mos chaj">>

\* ['버스를 놓쳤', '지하철을 놓쳤', '교통수단을 놓쳤']
missed_transport_keywords ==
    <<"beoseureul nohchyeoss", "jihacheoreul nohchyeoss", "gyotongsudaneul nohchyeoss">>

\* ['무서워', '도와주세요', '긴급', '위험']
emergency_keywords == <<"museowo", "dowajuseyo", "gingeup", "wiheom">>

\* the dict _analyze_situation starts from
situation_unknown ==
    [type |-> "unknown", urgency |-> "low", needs_reassurance |-> TRUE,
     suggested_actions |-> <<>>]

\* NavigationChatbotService._analyze_situation
_analyze_situation(request) ==
    LET message == lower(request.message)
        context == IF IsSome(request.user_context) /\ Truthy(Val(request.user_context))
                   THEN lower(Val(request.user_context))
                   ELSE <<>>
        situation == situation_unknown
    IN  IF ~HasAttr(request, "mode")
        THEN Raised(AttributeError("NavigationChatRequest", "mode"))
        ELSE IF request.mode = HomeMode
        THEN Returned([situation EXCEPT
                 !.type = "home_conversation",
                 !.urgency = "low",
                 !.needs_reassurance = FALSE,
                 !.suggested_actions = <<"general_conversation", "provide_guidance">>])
        ELSE IF AnyKeywordIn(route_deviation_keywords, message)
        THEN Returned([situation EXCEPT
                 !.type = "route_deviation",
                 !.urgency = "medium",
                 !.suggested_actions = <<"recalculate_route", "find_nearby_landmarks",
                                         "provide_step_by_step_guidance">>])
        ELSE IF \E i \in 1..Len(missed_transport_keywords) :
                    \/ Contains(message, missed_transport_keywords[i])
                    \/ Contains(context, missed_transport_keywords[i])
        THEN Returned([situation EXCEPT
                 !.type = "missed_transport",
                 !.urgency = "medium",
                 !.suggested_actions = <<"find_next_transport", "suggest_alternative_routes",
                                         "provide_wait_time_info">>])
        ELSE IF AnyKeywordIn(emergency_keywords, message)
        THEN Returned([situation EXCEPT
                 !.type = "emergency",
                 !.urgency = "high",
                 !.needs_reassurance = TRUE,
                 !.suggested_actions = <<"emergency_help", "find_safe_location",
                                         "contact_emergency_services">>])
        ELSE Returned(situation)

\* one element of context_parts: the fixed text of the line (named), the
\* str formatted into it and the numbers formatted into it
Line(id, text, nums) == [id |-> id, text |-> text, nums |-> nums]

\* NavigationChatbotService._create_contextual_prompt: the list context_parts
\* (the returned string is its lines joined by "\n")
_create_contextual_prompt(request, situation) ==
    IF ~HasAttr(request, "mode")
    THEN Raised(AttributeError("NavigationChatRequest", "mode"))
    ELSE
    LET p1 == <<Line("wichi", <<>>,                       \* "위치: {lat}, {lon}"
                     <<request.location.latitude, request.location.longitude>>)>>
        p2 == IF request.mode # HomeMode
              THEN <<Line("idongsudan", <<LIT(request.mode)>>, <<>>)>>  \* "이동수단: {mode}"
              ELSE <<Line("sanghwang: hom hwamyeon", <<>>, <<>>)>>
        p3 == IF IsSome(request.destination_address)
                 /\ Truthy(Val(request.destination_address))
              THEN <<Line("mokjeokji", Val(request.destination_address), <<>>),
                     Line("jungyo: mokjeokji jeongbo isseum", <<>>, <<>>)>>
              ELSE <<Line("mokjeokji: jeongbo eopseum", <<>>, <<>>),
                     Line("jungyo: mokjeokji jeongbo eopseum", <<>>, <<>>)>>
        p4 == IF IsSome(request.user_context) /\ Truthy(Val(request.user_context))
              THEN <<Line("sanghwang", Val(request.user_context), <<>>)>>
              ELSE <<>>
        p5 == IF situation.type = "home_conversation"
              THEN <<Line("sanghwang: hom hwamyeon ilban daehwa", <<>>, <<>>)>>
              ELSE IF situation.type = "route_deviation"
              THEN <<Line("sanghwang: gireul italham", <<>>, <<>>)>>
              ELSE IF situation.type = "missed_transport"
              THEN <<Line("sanghwang: gyotongsudan nohchim", <<>>, <<>>)>>
              ELSE IF situation.type = "emergency"
              THEN <<Line("sanghwang: gingeupsanghwang", <<>>, <<>>)>>
              ELSE <<>>
        p6 == <<Line("jungyo: chuga jilmun eopsi", <<>>, <<>>)>>
    IN  Returned(p1 \o p2 \o p3 \o p4 \o p5 \o p6)

\* a prompt handed to generate_content
Prompt(system, context, user) == [system |-> system, context |-> context, user |-> user]

\* what a service method did: the value it returned or the exception it
\* raised, its local `situation` (None while unassigned), the prompts it
\* sent to generate_content, the steps it went through
Outcome(r, situation, sent, stages) ==
    [raised |-> r.raised, value |-> r.value, exc |-> r.exc,
     situation |-> situation, sent |-> sent, stages |-> stages]

\* NavigationChatResponse(...)
NavigationChatResponse(response, model, action_type, confidence_score) ==
    [response |-> response, model |-> model, action_type |-> action_type,
     confidence_score |-> confidence_score]

\* 0.9 if situation["type"] != "unknown" else 0.7   (in tenths)
confidence_of(situation) == IF situation.type # "unknown" THEN 9 ELSE 7

\* situation["suggested_actions"][0] if situation["suggested_actions"] else None
action_type_of(situation) ==
    IF situation.suggested_actions # <<>>
    THEN Some(situation.suggested_actions[1])
    ELSE None

\* "내비게이션 챗봇 오류: {str(e)}"
NavigationError(e) == <<"naebigeisyeon chaetbot oryu: ">> \o e

\* NavigationChatbotService.generate_navigation_response
generate_navigation_response(request, up) ==
    LET sit == _analyze_situation(request)
    IN  IF sit.raised
        THEN Outcome(Raised(NavigationError(sit.exc)), None, <<>>, <<"classify">>)
        ELSE
        LET situation == Val(sit.value)
            ctx == _create_contextual_prompt(request, situation)
        IN  IF ctx.raised
            THEN Outcome(Raised(NavigationError(ctx.exc)), Some(situation), <<>>,
                         <<"classify", "template">>)
            ELSE
            LET full_prompt == Prompt("navigation", Val(ctx.value), request.message)
            IN  IF ~up.ok
                THEN Outcome(Raised(NavigationError(up.error)), Some(situation), <<full_prompt>>,
                             <<"classify", "template", "delegate">>)
                ELSE Outcome(Returned(NavigationChatResponse(
                                 strip(up.text), settings.google_ai_model,
                                 action_type_of(situation), Some(confidence_of(situation)))),
                             Some(situation), <<full_prompt>>,
                             <<"classify", "template", "delegate", "wrap">>)

-----------------------------------------------------------------------------
(* app/services/google_ai_service.py *)

\* s[:n]: the first n characters; a literal cut short is no literal any more
RECURSIVE Take(_, _)
Take(s, n) ==
    IF s = <<>> \/ n <= 0 THEN <<>>
    ELSE IF Head(s).n <= n THEN <<Head(s)>> \o Take(Tail(s), n - Head(s).n)
    ELSE IF Head(s).k = "ws" THEN <<WS(n)>> ELSE <<TXT(n)>>

\* ['맞나요', '맞는가', '정확한가', '사실인가']
fact_check_keywords == <<"majnayo", "majneunga", "jeonghwakhanga", "sasiringa">>
\* ['어떻게 생각하나요', '의견', '생각']: the first contains the third
opinion_keywords == <<"uigyeon", "saenggak">>
\* ['설명', '이해', '알려주세요', '무엇인가']
explanation_keywords == <<"seolmyeong", "ihae", "allyeojuseyo", "mueosinga">>
\* ['차이', '비교', 'vs', 'versus']
comparison_keywords == <<"chai", "bigyo", "vs", "versus">>

\* mutant: the keyword rewrites are tried before the two length rewrites
_preprocess_prompt_keywords_first(raw) ==
    LET message == strip(raw)
        lower_message == lower(message)
    IN  IF AnyKeywordIn(fact_check_keywords, lower_message)
        THEN <<LIT("fact wrapper")>> \o message
        ELSE IF AnyKeywordIn(opinion_keywords, lower_message)
        THEN <<LIT("opinion wrapper")>> \o message
        ELSE IF AnyKeywordIn(explanation_keywords, lower_message)
        THEN <<LIT("explain wrapper")>> \o message
        ELSE IF AnyKeywordIn(comparison_keywords, lower_message)
        THEN <<LIT("compare wrapper")>> \o message
        ELSE IF StrLen(message) < 10
        THEN <<LIT("short wrapper")>> \o message
        ELSE IF StrLen(message) > 500
        THEN <<LIT("long wrapper")>> \o Take(message, 500) \o <<LIT("...")>>
        ELSE message

\* GoogleAIService._preprocess_prompt
_preprocess_prompt(raw) ==
    LET message == strip(raw)
        lower_message == lower(message)
    IN  IF StrLen(message) < 10
        THEN <<LIT("short wrapper")>> \o message
        ELSE IF StrLen(message) > 500
        THEN <<LIT("long wrapper")>> \o Take(message, 500) \o <<LIT("...")>>
        ELSE IF AnyKeywordIn(fact_check_keywords, lower_message)
        THEN <<LIT("fact wrapper")>> \o message
        ELSE IF AnyKeywordIn(opinion_keywords, lower_message)
        THEN <<LIT("opinion wrapper")>> \o message
        ELSE IF AnyKeywordIn(explanation_keywords, lower_message)
        THEN <<LIT("explain wrapper")>> \o message
        ELSE IF AnyKeywordIn(comparison_keywords, lower_message)
        THEN <<LIT("compare wrapper")>> \o message
        ELSE message

\* ChatResponse(...)
ChatResponse(response, model) == [response |-> response, model |-> model]

\* "Google AI Studio 통신 오류: {str(e)}"
GoogleAIError(e) == <<"Google AI Studio tongsin oryu: ">> \o e

\* mutant: a failed generate_content call is tried once more
generate_response_retrying(request, up) ==
    LET processed_message == _preprocess_prompt(request.message)
        full_prompt == Prompt("assistant", <<>>, processed_message)
    IN  IF ~up.ok
        THEN Outcome(Raised(GoogleAIError(up.error)), None, <<full_prompt, full_prompt>>,
                     <<"template", "delegate", "delegate">>)
        ELSE Outcome(Returned(ChatResponse(up.text, settings.google_ai_model)),
                     None, <<full_prompt>>, <<"template", "delegate", "wrap">>)

\* GoogleAIService.generate_response
generate_response(request, up) ==
    LET processed_message == _preprocess_prompt(request.message)
        full_prompt == Prompt("assistant", <<>>, processed_message)
    IN  IF ~up.ok
        THEN Outcome(Raised(GoogleAIError(up.error)), None, <<full_prompt>>,
                     <<"template", "delegate">>)
        ELSE Outcome(Returned(ChatResponse(up.text, settings.google_ai_model)),
                     None, <<full_prompt>>, <<"template", "delegate", "wrap">>)

\* GoogleAIService.health_check: generate_content("Hello"), every exception
\* turned into False
GoogleAIService_health_check(up) ==
    LET sent == <<Prompt("", <<>>, <<LIT("Hello")>>)>>
    IN  IF ~up.ok
        THEN Outcome(Returned(FALSE), None, sent, <<"delegate">>)
        ELSE Outcome(Returned(TRUE), None, sent, <<"delegate">>)

-----------------------------------------------------------------------------
(* app/api/endpoints: what a call ends in *)

\* kind: "ValidationError" (the body fails the request model; FastAPI answers
\* 422), "HTTPException" (raised by the handler), "Exception" (raised by a
\* service method called directly), "response" (a value is returned).
\* status is the HTTP status, 0 where no HTTP layer is involved.  request is
\* the validated request object (None when there is none).
Answer(kind, status, detail, errors, content, request, o) ==
    [kind |-> kind, status |-> status, detail |-> detail, errors |-> errors,
     content |-> content, request |-> request, situation |-> o.situation,
     sent |-> o.sent, stages |-> o.stages]

NoOutcome == Outcome(Raised(<<>>), None, <<>>, <<"validate">>)

\* the body fails the request model
Unprocessable(status, v) ==
    Answer("ValidationError", status, <<"validation error">>, v.errors, None, None,
           NoOutcome)

\* mutant: a body that fails the request model is answered like a failure
\* of the handler
navigation_chat_validation_500(b, up) ==
    LET v == NavigationChatRequest(b)
    IN  IF ~v.ok
        THEN Answer("HTTPException", 500, <<"Navigation chatbot error: ", "validation error">>,
                    v.errors, None, None, NoOutcome)
        ELSE
        LET o == generate_navigation_response(Val(v.obj), up)
            traced == [o EXCEPT !.stages = <<"validate">> \o o.stages]
        IN  IF o.raised
            THEN Answer("HTTPException", 500, <<"Navigation chatbot error: ">> \o o.exc,
                        {}, None, v.obj, traced)
            ELSE Answer("response", 200, <<>>, {}, o.value, v.obj, traced)

\* endpoints/chat.py navigation_chat (POST /api/v1/chat), with the
\* validation of the body that precedes it
navigation_chat(b, up) ==
    LET v == NavigationChatRequest(b)
    IN  IF ~v.ok THEN Unprocessable(422, v)
        ELSE
        LET o == generate_navigation_response(Val(v.obj), up)
            traced == [o EXCEPT !.stages = <<"validate">> \o o.stages]
        IN  IF o.raised
            THEN Answer("HTTPException", 500, <<"Navigation chatbot error: ">> \o o.exc,
                        {}, None, v.obj, traced)
            ELSE Answer("response", 200, <<>>, {}, o.value, v.obj, traced)

\* endpoints/navigation.py navigation_chat (POST /navigation/chat)
navigation_router_chat(b, up) ==
    LET v == NavigationChatRequest(b)
    IN  IF ~v.ok THEN Unprocessable(422, v)
        ELSE
        LET o == generate_navigation_response(Val(v.obj), up)
            traced == [o EXCEPT !.stages = <<"validate">> \o o.stages]
        IN  IF o.raised
            THEN Answer("HTTPException", 500, <<"Navigation chatbot error: ">> \o o.exc,
                        {}, None, v.obj, traced)
            ELSE Answer("response", 200, <<>>, {}, o.value, v.obj, traced)

\* the dict navigation_health_check returns; "error" only when unhealthy
NavigationHealth(status, error) ==
    [status |-> status, service |-> "Navigation Chatbot Service", error |-> error]

\* the body of the test request: message="테스트", location=(37.5665, 126.9780)
test_request ==
    [message |-> <<TXT(3)>>, location |-> [latitude |-> 375665, longitude |-> 1269780],
     destination_address |-> None, mode |-> None, transportation_mode |-> None,
     user_context |-> None]

\* mutant: the except branch answers "healthy" too
navigation_health_check_always_healthy(up) ==
    LET v == NavigationChatRequest(test_request)
        o == generate_navigation_response(Val(v.obj), up)
    IN  Answer("response", 200, <<>>, {}, Some(NavigationHealth("healthy", None)),
               v.obj, [o EXCEPT !.stages = <<"validate">> \o o.stages])

\* endpoints/navigation.py navigation_health_check (GET /navigation/health);
\* the request is built inside the try, so a ValidationError is caught too
navigation_health_check(up) ==
    LET v == NavigationChatRequest(test_request)
    IN  IF ~v.ok
        THEN Answer("response", 200, <<>>, {},
                    Some(NavigationHealth("unhealthy", Some(<<LIT("validation error")>>))),
                    None, NoOutcome)
        ELSE
        LET o == generate_navigation_response(Val(v.obj), up)
            traced == [o EXCEPT !.stages = <<"validate">> \o o.stages]
        IN  IF o.raised
            THEN Answer("response", 200, <<>>, {},
                        Some(NavigationHealth("unhealthy", Some(o.exc))), v.obj, traced)
            ELSE Answer("response", 200, <<>>, {},
                        Some(NavigationHealth("healthy", None)), v.obj, traced)

\* HealthStatus(...)
HealthStatus(status, model) == [status |-> status, model |-> model]

\* mutant: the probe's value is not looked at
health_check_always_healthy(up) ==
    LET probe == GoogleAIService_health_check(up)
    IN  Answer("response", 200, <<>>, {},
               Some(HealthStatus("healthy", settings.google_ai_model)), None, probe)

\* endpoints/health.py health_check (GET /api/v1/health)
health_check(up) ==
    LET probe == GoogleAIService_health_check(up)
    IN  IF probe.raised
        THEN Answer("response", 200, <<>>, {},
                    Some(HealthStatus("unhealthy", settings.google_ai_model)), None, probe)
        ELSE LET google_ai_healthy == Val(probe.value)
                 status_value == IF google_ai_healthy THEN "healthy" ELSE "unhealthy"
             IN  Answer("response", 200, <<>>, {},
                        Some(HealthStatus(status_value, settings.google_ai_model)), None,
                        probe)

\* ChatRequest(**body) followed by GoogleAIService.generate_response(request)
chat_generate_response(b, up) ==
    LET v == ChatRequest(b)
    IN  IF ~v.ok THEN Unprocessable(0, v)
        ELSE
        LET o == generate_response(Val(v.obj), up)
            traced == [o EXCEPT !.stages = <<"validate">> \o o.stages]
        IN  IF o.raised
            THEN Answer("Exception", 0, o.exc, {}, None, v.obj, traced)
            ELSE Answer("response", 0, <<>>, {}, o.value, v.obj, traced)

-----------------------------------------------------------------------------
(* The inputs the model draws from *)

\* the keywords of the three keyword buckets of the classifier
NavKeywords ==
    {route_deviation_keywords[i] : i \in 1..Len(route_deviation_keywords)}
    \cup {missed_transport_keywords[i] : i \in 1..Len(missed_transport_keywords)}
    \cup {emergency_keywords[i] : i \in 1..Len(emergency_keywords)}

\* a message holding keyword a, then keyword b ("" for none)
KeywordMessage(a, b) ==
    (IF a # "" THEN <<LIT(a), TXT(3)>> ELSE <<TXT(2)>>)
    \o (IF b # "" THEN <<WS(1), LIT(b), TXT(1)>> ELSE <<>>)

\* "버스를 놓쳤어요"
BusMessage == <<LIT("beoseureul nohchyeoss"), TXT(2)>>
\* "무서워요"
ScaredMessage == <<LIT("museowo"), TXT(1)>>
\* "길을 이탈했어요 무서워요"
DeviatedScaredMessage == KeywordMessage("gileul ital", "museowo")
\* "테스트"
TestMessage == <<TXT(3)>>

\* every keyword (or none) first, then none or one keyword of each bucket
KeywordMessages ==
    {KeywordMessage(a, b) :
        a \in NavKeywords \cup {""},
        b \in {"", route_deviation_keywords[1], missed_transport_keywords[1],
               emergency_keywords[1]}}
    \cup {BusMessage, ScaredMessage, TestMessage}

Pad(n) == IF n = 0 THEN <<>> ELSE <<WS(n)>>

\* messages around the emptiness check and around the length bound max:
\* every amount of padding up to MaxPad on each side of a short or of a
\* nearly-too-long text
PaddedMessages(max) ==
    {Pad(l) \o core \o Pad(t) :
        l \in 0..MaxPad, t \in 0..MaxPad,
        core \in {<<>>, <<TXT(1)>>, <<TXT(1), WS(1), TXT(1)>>}
                 \cup {<<TXT(n)>> : n \in (max - 2 * MaxPad)..(max + 1)}}

SeoulLocation == [latitude |-> 375665, longitude |-> 1269780]

Locations ==
    {[latitude |-> la, longitude |-> lo] :
        la \in {latitude_ge - 1, latitude_ge, 375665, latitude_le, latitude_le + 1},
        lo \in {longitude_ge - 1, longitude_ge, 1269780, longitude_le, longitude_le + 1}}

\* the "mode" key of the body that endpoints/chat.py documents ("도보",
\* "대중교통") and the "홈" the service compares with
ModeKeys == {None, Some("daejunggyotong"), Some(HomeMode)}

TransportationModes ==
    {None, Some("public_transport"), Some("walking"), Some("driving"),
     Some("daejunggyotong"), Some(HomeMode)}

UserContexts ==
    {None, Some(<<TXT(4)>>),
     Some(<<LIT("jihacheoreul nohchyeoss"), TXT(2)>>),
     Some(<<LIT("gileul ital")>>), Some(<<LIT("museowo")>>)}

NavBody(message, location, destination_address, mode, transportation_mode, user_context) ==
    [message |-> message, location |-> location,
     destination_address |-> destination_address, mode |-> mode,
     transportation_mode |-> transportation_mode, user_context |-> user_context]

\* bodies that vary what the classifier and the prompt read
ClassifierBodies ==
    {NavBody(m, SeoulLocation, d, md, None, c) :
        m \in KeywordMessages, d \in {None, Some(<<TXT(5)>>)},
        md \in ModeKeys, c \in UserContexts}

\* bodies that vary what validation reads
ValidationBodies ==
    {NavBody(m, SeoulLocation, None, None, None, None) :
        m \in PaddedMessages(NavigationChatRequest_max_length)}
    \cup {NavBody(m, l, None, None, t, None) :
        m \in {BusMessage, <<WS(1)>>}, l \in Locations, t \in TransportationModes}

UpOk(text) == [ok |-> TRUE, text |-> text, error |-> <<>>]
UpRaise(e) == [ok |-> FALSE, text |-> <<>>, error |-> <<e>>]

\* what generate_content does: return a text, or raise
Upstreams ==
    {UpOk(<<TXT(20)>>), UpOk(<<WS(1), TXT(20), WS(1)>>), UpRaise("429 quota exceeded")}

NavInputs ==
    (ClassifierBodies \X Upstreams) \cup (ValidationBodies \X {UpOk(<<TXT(20)>>)})

ChatBody(message) == [message |-> message]

\* the two lengths _preprocess_prompt compares with
short_limit == 10
long_limit == 500

\* the keywords of the four keyword rewrites, and two in upper case
ChatKeywords ==
    {fact_check_keywords[i] : i \in 1..Len(fact_check_keywords)}
    \cup {opinion_keywords[i] : i \in 1..Len(opinion_keywords)}
    \cup {explanation_keywords[i] : i \in 1..Len(explanation_keywords)}
    \cup {comparison_keywords[i] : i \in 1..Len(comparison_keywords)}
    \cup {"VS", "VERSUS"}

KeywordLen(a) == IF a = "" THEN 0 ELSE LitLen(a)

\* a message of total characters that starts with keyword a and ends with
\* keyword b ("" for none)
ChatKeywordMessage(a, b, total) ==
    (IF a = "" THEN <<>> ELSE <<LIT(a)>>)
    \o <<TXT(total - KeywordLen(a) - KeywordLen(b))>>
    \o (IF b = "" THEN <<>> ELSE <<LIT(b)>>)

\* every keyword (or none) first, none or one keyword of each rewrite last,
\* at the lengths on both sides of the two limits
ChatKeywordMessages ==
    {ChatKeywordMessage(a, b, total) :
        a \in ChatKeywords \cup {""},
        b \in {"", fact_check_keywords[1], opinion_keywords[1],
               explanation_keywords[1], comparison_keywords[1]},
        total \in {short_limit - 1, short_limit, long_limit, long_limit + 1}}

ChatInputs ==
    ({ChatBody(m) : m \in PaddedMessages(ChatRequest_max_length)} \X {UpOk(<<TXT(20)>>)})
    \cup ({ChatBody(m) : m \in ChatKeywordMessages} \X {UpOk(<<TXT(20)>>)})
    \cup ({ChatBody(m) : m \in {TestMessage, BusMessage}} \X Upstreams)

valid_models == {"gemini-1.5-flash", "gemini-1.5-pro", "gemini-pro", "gemini-pro-vision"}

-----------------------------------------------------------------------------
(* app/core/config.py; temperatures are in tenths *)

Settings_port_default == 8000
Settings_port_ge == 1024
Settings_port_le == 65535
Settings_google_ai_model_default == "gemini-1.5-flash"
Settings_default_temperature_default == 2
Settings_default_temperature_ge == 0
Settings_default_temperature_le == 10
Settings_default_max_tokens_default == 1000
Settings_default_max_tokens_ge == 1
Settings_default_max_tokens_le == 8000

\* Settings.validate_google_ai_model
validate_google_ai_model(v) ==
    IF v \notin valid_models THEN Raised(<<LIT("jiwonhaji anhneun model")>>)
    ELSE Returned(v)

\* Settings.validate_port
validate_port(v) ==
    IF v < 1024 \/ v > 65535 THEN Raised(<<LIT("port beonho 1024-65535")>>)
    ELSE Returned(v)

\* Settings(): every field from the environment, else its default; a given
\* value goes through the Field constraints, then through its validator;
\* defaults are not validated; google_api_key has no default
Settings(env) ==
    LET port_ok ==
            env.PORT = None
            \/ /\ RangeConstraintOk(Val(env.PORT), Settings_port_ge, Settings_port_le)
               /\ ~validate_port(Val(env.PORT)).raised
        model_ok ==
            env.GOOGLE_AI_MODEL = None
            \/ ~validate_google_ai_model(Val(env.GOOGLE_AI_MODEL)).raised
        temperature_ok ==
            env.DEFAULT_TEMPERATURE = None
            \/ RangeConstraintOk(Val(env.DEFAULT_TEMPERATURE),
                                 Settings_default_temperature_ge,
                                 Settings_default_temperature_le)
        max_tokens_ok ==
            env.DEFAULT_MAX_TOKENS = None
            \/ RangeConstraintOk(Val(env.DEFAULT_MAX_TOKENS),
                                 Settings_default_max_tokens_ge,
                                 Settings_default_max_tokens_le)
        errors ==
            (IF port_ok THEN {} ELSE {"port"})
            \cup (IF IsSome(env.GOOGLE_API_KEY) THEN {} ELSE {"google_api_key"})
            \cup (IF model_ok THEN {} ELSE {"google_ai_model"})
            \cup (IF temperature_ok THEN {} ELSE {"default_temperature"})
            \cup (IF max_tokens_ok THEN {} ELSE {"default_max_tokens"})
        Or(o, default) == IF IsSome(o) THEN Val(o) ELSE default
    IN  IF errors # {} THEN [ok |-> FALSE, errors |-> errors, obj |-> None]
        ELSE [ok |-> TRUE, errors |-> {},
              obj |-> Some([port |-> Or(env.PORT, Settings_port_default),
                            google_api_key |-> Val(env.GOOGLE_API_KEY),
                            google_ai_model |->
                                Or(env.GOOGLE_AI_MODEL, Settings_google_ai_model_default),
                            default_temperature |->
                                Or(env.DEFAULT_TEMPERATURE,
                                   Settings_default_temperature_default),
                            default_max_tokens |->
                                Or(env.DEFAULT_MAX_TOKENS,
                                   Settings_default_max_tokens_default)])]

\* mutant: the module-level API key test is dropped
api_key_given_unchecked(s) == TRUE

\* "if not settings.google_api_key: raise ValueError(...)", negated
api_key_given(s) == s.google_api_key # ""

\* importing app.core.config: settings = Settings(), then the API key test;
\* an exception here ends the import of main.py, before the app exists
config(env) ==
    LET s == Settings(env)
    IN  IF ~s.ok THEN Raised(<<LIT("ValidationError")>>)
        ELSE IF ~api_key_given(Val(s.obj))
        THEN Raised(<<LIT("GOOGLE_API_KEY environment variable is required")>>)
        ELSE Returned(Val(s.obj))

\* os.environ and .env, as far as Settings reads them
Environ(key, model, port, temperature, max_tokens) ==
    [GOOGLE_API_KEY |-> key, GOOGLE_AI_MODEL |-> model, PORT |-> port,
     DEFAULT_TEMPERATURE |-> temperature, DEFAULT_MAX_TOKENS |-> max_tokens]

\* environments: a good one, and one setting changed at a time to a value
\* at, or just outside, what Settings allows
Environments ==
    {Environ(k, None, None, None, None) : k \in {None, Some(""), Some("AIza")}}
    \cup {Environ(Some("AIza"), Some(m), None, None, None) : m \in {"gemini-pro", "gpt-4"}}
    \cup {Environ(Some("AIza"), None, Some(p), None, None) :
            p \in {Settings_port_ge - 1, Settings_port_ge,
                   Settings_port_le, Settings_port_le + 1}}
    \cup {Environ(Some("AIza"), None, None, Some(t), None) :
            t \in {Settings_default_temperature_ge - 1, Settings_default_temperature_ge,
                   Settings_default_temperature_le, Settings_default_temperature_le + 1}}
    \cup {Environ(Some("AIza"), None, None, None, Some(n)) :
            n \in {Settings_default_max_tokens_ge - 1, Settings_default_max_tokens_ge,
                   Settings_default_max_tokens_le, Settings_default_max_tokens_le + 1}}
    \cup {Environ(Some(""), Some("gpt-4"), Some(80), None, None)}

-----------------------------------------------------------------------------
(* The state machine *)

NoBody == [message |-> <<>>]
NoUpstream == UpOk(<<>>)
NoResult == Answer("none", 0, <<>>, {}, None, None, Outcome(Raised(<<>>), None, <<>>, <<>>))

\* the module-level name "settings" before app.core.config has run
NoSettings ==
    [port |-> 0, google_api_key |-> "", google_ai_model |-> "",
     default_temperature |-> 0, default_max_tokens |-> 0]

RequestIds == 1..MaxRequests

\* a request in flight: "none" (no request), "received" (the event loop
\* holds it), "answered" (its handler has returned)
InFlight(phase, name, b, up, r) ==
    [phase |-> phase, op |-> name, body |-> b, upstream |-> up, result |-> r]

NoRequest == InFlight("none", "none", NoBody, NoUpstream, NoResult)

\* the process is started in some environment; nothing is imported yet
Init ==
    /\ pc = "starting"
    /\ environ \in Environments
    /\ inflight = [id \in RequestIds |-> NoRequest]
    /\ op = "none"
    /\ body = NoBody
    /\ upstream = NoUpstream
    /\ result = NoResult
    /\ settings = NoSettings

\* main.py imports app.core.config first; if that raises, the process ends
\* with no app and no handler; otherwise the app is built and serves
Startup ==
    /\ pc = "starting"
    /\ LET c == config(environ)
       IN  IF c.raised
           THEN pc' = "aborted" /\ UNCHANGED settings
           ELSE pc' = "idle" /\ settings' = Val(c.value)
    /\ UNCHANGED <<environ, inflight, op, body, upstream, result>>

Handle(name, b, up, r) ==
    /\ pc' = "done"
    /\ op' = name
    /\ body' = b
    /\ upstream' = up
    /\ result' = r
    /\ UNCHANGED <<environ, inflight, settings>>

\* POST /api/v1/chat
NavigationChat ==
    /\ pc = "idle"
    /\ \E in \in NavInputs : Handle("navigation_chat", in[1], in[2], navigation_chat(in[1], in[2]))

\* POST /navigation/chat
NavigationRouterChat ==
    /\ pc = "idle"
    /\ \E in \in NavInputs :
        Handle("navigation_router_chat", in[1], in[2], navigation_router_chat(in[1], in[2]))

\* GET /api/v1/health
HealthCheck ==
    /\ pc = "idle"
    /\ \E up \in Upstreams : Handle("health_check", NoBody, up, health_check(up))

\* GET /navigation/health
NavigationHealthCheck ==
    /\ pc = "idle"
    /\ \E up \in Upstreams :
        Handle("navigation_health_check", test_request, up, navigation_health_check(up))

\* a ChatRequest handed to GoogleAIService.generate_response
GenerateResponse ==
    /\ pc = "idle"
    /\ \E in \in ChatInputs :
        Handle("generate_response", in[1], in[2], chat_generate_response(in[1], in[2]))

\* the answer is sent; the request's objects are discarded
Respond ==
    /\ pc = "done"
    /\ pc' = "idle"
    /\ op' = "none"
    /\ body' = NoBody
    /\ upstream' = NoUpstream
    /\ result' = NoResult
    /\ UNCHANGED <<environ, inflight, settings>>

Next ==
    \/ Startup
    \/ NavigationChat
    \/ NavigationRouterChat
    \/ HealthCheck
    \/ NavigationHealthCheck
    \/ GenerateResponse
    \/ Respond

Spec == Init /\ [][Next]_vars

-----------------------------------------------------------------------------
(* Requests in flight together.  The handlers are coroutines that never    *)
(* suspend (generate_content is a blocking call), so the event loop runs   *)
(* each handler from start to end; requests that are in flight together    *)
(* are handled one whole handler at a time, in any order.                  *)

\* the route (or method) a request is for, applied to the request
AnswerOf(name, b, up) ==
    CASE name = "navigation_chat" -> navigation_chat(b, up)
      [] name = "navigation_router_chat" -> navigation_router_chat(b, up)
      [] name = "health_check" -> health_check(up)
      [] name = "navigation_health_check" -> navigation_health_check(up)
      [] name = "generate_response" -> chat_generate_response(b, up)

ConcurrentInputs ==
    ({"navigation_chat"}
        \X {NavBody(m, SeoulLocation, None, None, None, None) : m \in {BusMessage, <<WS(1)>>}}
        \X Upstreams)
    \cup ({"generate_response"}
        \X {ChatBody(m) : m \in {TestMessage, ChatKeywordMessage("VS", "", short_limit)}}
        \X Upstreams)
    \cup ({"health_check"} \X {NoBody} \X Upstreams)
    \cup ({"navigation_health_check"} \X {test_request} \X Upstreams)

\* mutant: the handler answers with what the upstream call of the request
\* next to it returned
OwnAnswer_shared_reply(id) ==
    AnswerOf(inflight[id].op, inflight[id].body,
             inflight[(id % MaxRequests) + 1].upstream)

\* what the handler of request id computes: it reads its own request, the
\* reply to its own upstream call, and settings
OwnAnswer(id) == AnswerOf(inflight[id].op, inflight[id].body, inflight[id].upstream)

\* a request arrives while others may be in flight
Receive(id) ==
    /\ pc = "idle"
    /\ inflight[id].phase = "none"
    /\ \E in \in ConcurrentInputs :
        inflight' = [inflight EXCEPT ![id] = InFlight("received", in[1], in[2], in[3], NoResult)]
    /\ UNCHANGED <<pc, environ, op, body, upstream, result, settings>>

\* the event loop runs the handler of one received request, start to end
Run(id) ==
    /\ pc = "idle"
    /\ inflight[id].phase = "received"
    /\ inflight' = [inflight EXCEPT ![id].phase = "answered", ![id].result = OwnAnswer(id)]
    /\ UNCHANGED <<pc, environ, op, body, upstream, result, settings>>

\* the answer is sent; the request's objects are discarded
Reply(id) ==
    /\ pc = "idle"
    /\ inflight[id].phase = "answered"
    /\ inflight' = [inflight EXCEPT ![id] = NoRequest]
    /\ UNCHANGED <<pc, environ, op, body, upstream, result, settings>>

NextConcurrent ==
    \/ Startup
    \/ \E id \in RequestIds : Receive(id)
    \/ \E id \in RequestIds : Run(id)
    \/ \E id \in RequestIds : Reply(id)

SpecConcurrent == Init /\ [][NextConcurrent]_vars

-----------------------------------------------------------------------------
(* Properties *)

Done == pc = "done"
IsNav == op \in {"navigation_chat", "navigation_router_chat"}
\* the body passed the request model and the handler ran
Handled == Done /\ result.kind # "ValidationError"

\* text e occurs verbatim in text t (texts as sequences of pieces)
ContainsText(t, e) ==
    \E i \in 1..(Len(t) - Len(e) + 1) : SubSeq(t, i, i + Len(e) - 1) = e

\* C1 (as claimed): a handled navigation request whose mode is not the home
\* sentinel and whose message holds a route-deviation keyword and an
\* emergency keyword is classified route_deviation.
C1_RouteDeviationFirst ==
    (/\ Handled /\ IsNav
     /\ body.mode # Some(HomeMode)
     /\ AnyKeywordIn(route_deviation_keywords, lower(body.message))
     /\ AnyKeywordIn(emergency_keywords, lower(body.message)))
    => /\ IsSome(result.situation)
       /\ Val(result.situation).type = "route_deviation"

\* C2 (as claimed): a handled navigation request sent with mode "홈" is
\* classified home_conversation, urgency low, no reassurance, actions
\* [general_conversation, provide_guidance], whatever its message and context.
C2_HomeShortCircuit ==
    (Handled /\ IsNav /\ body.mode = Some(HomeMode))
    => result.situation =
           Some([type |-> "home_conversation", urgency |-> "low",
                 needs_reassurance |-> FALSE,
                 suggested_actions |-> <<"general_conversation", "provide_guidance">>])

\* C3 (as claimed): the request {"버스를 놓쳤어요", (37.5665, 126.9780), mode
\* "대중교통"} with an upstream that replies ends in a response with
\* action_type find_next_transport, confidence 0.9, a non-empty text and the
\* configured model name.
C3_RoundTrip ==
    (/\ Done /\ IsNav
     /\ body.message = BusMessage
     /\ body.location = SeoulLocation
     /\ body.mode = Some("daejunggyotong")
     /\ body.transportation_mode = None
     /\ upstream.ok /\ Truthy(strip(upstream.text)))
    => /\ result.kind = "response"
       /\ Val(result.content).action_type = Some("find_next_transport")
       /\ Val(result.content).confidence_score = Some(9)
       /\ Truthy(Val(result.content).response)
       /\ Val(result.content).model = settings.google_ai_model

\* C4 (as claimed): a handled navigation request whose upstream call replies
\* is answered with confidence 0.9 when its situation type is not unknown and
\* 0.7 when it is.
C4_ConfidenceTwoValued ==
    (Handled /\ IsNav /\ upstream.ok)
    => /\ result.kind = "response"
       /\ IsSome(result.situation)
       /\ Val(result.content).confidence_score =
              Some(IF Val(result.situation).type # "unknown" THEN 9 ELSE 7)

\* C5 (as claimed): a handled navigation request whose upstream call replies
\* is answered with the first suggested action of its situation as
\* action_type, and with none exactly when the list is empty, which is
\* exactly when the type is unknown.
C5_ActionTypeIsFirstAction ==
    (Handled /\ IsNav /\ upstream.ok)
    => /\ result.kind = "response"
       /\ IsSome(result.situation)
       /\ LET sit == Val(result.situation)
              action_type == Val(result.content).action_type
          IN  /\ sit.suggested_actions # <<>>
                    => action_type = Some(sit.suggested_actions[1])
              /\ (action_type = None) <=> (sit.suggested_actions = <<>>)
              /\ (sit.suggested_actions = <<>>) <=> (sit.type = "unknown")

\* C6 (as claimed): a handled navigation request whose upstream call raises
\* ends in a 500 whose detail holds the upstream error text verbatim, with no
\* response object.
C6_UpstreamErrorVerbatim ==
    (Handled /\ IsNav /\ ~upstream.ok)
    => /\ result.kind = "HTTPException"
       /\ result.status = 500
       /\ ContainsText(result.detail, upstream.error)
       /\ result.content = None

\* C7: the health endpoint always answers a HealthStatus; the probe turns a
\* raising upstream call into False; the status is "unhealthy" when the
\* upstream call fails and "healthy" otherwise.
C7_HealthNeverRaises ==
    (Done /\ op = "health_check")
    => /\ result.kind = "response"
       /\ result.status = 200
       /\ ~GoogleAIService_health_check(upstream).raised
       /\ Val(GoogleAIService_health_check(upstream).value) = upstream.ok
       /\ Val(result.content).status = (IF upstream.ok THEN "healthy" ELSE "unhealthy")
       /\ Val(result.content).model = settings.google_ai_model

\* C7 witness: a health check whose upstream call raised, answered "unhealthy"
C7_Witness ==
    /\ Done /\ op = "health_check"
    /\ ~upstream.ok
    /\ result.kind = "response"
    /\ Val(result.content).status = "unhealthy"

IsChat == op = "generate_response"

\* every character of s is whitespace (its length after trimming is 0)
AllWhitespace(s) == \A i \in 1..Len(s) : s[i].k = "ws"

\* m is s without its leading and trailing whitespace
IsTrimOf(m, s) ==
    /\ m # <<>> => (m[1].k # "ws" /\ m[Len(m)].k # "ws")
    /\ \E i \in 1..(Len(s) + 1), j \in 0..Len(s) :
          /\ SubSeq(s, i, j) = m
          /\ \A k \in 1..(i - 1) : s[k].k = "ws"
          /\ \A k \in (j + 1)..Len(s) : s[k].k = "ws"

\* C8: for ChatRequest and NavigationChatRequest, a message that is empty
\* after trimming is rejected with a validation error on the message field,
\* and an accepted request carries the trimmed message.
C8_BlankMessageRejected ==
    (Done /\ (IsNav \/ IsChat))
    => /\ AllWhitespace(body.message)
            => (result.kind = "ValidationError" /\ "message" \in result.errors)
       /\ result.kind # "ValidationError"
            => /\ IsSome(result.request)
               /\ IsTrimOf(Val(result.request).message, body.message)

\* C8 witness: a whitespace-only navigation message, rejected
C8_Witness ==
    /\ Done /\ IsNav
    /\ body.message # <<>> /\ AllWhitespace(body.message)
    /\ result.kind = "ValidationError"
    /\ result.errors = {"message"}

\* the length bound of the message field of the model the operation validates
MessageBound == IF IsChat THEN 10000 ELSE 1000

\* C9 (as claimed): the message is accepted iff its trimmed length is
\* between 1 and the bound (1000 navigation, 10000 chat).
C9_TrimBeforeLength ==
    (Done /\ (IsNav \/ IsChat))
    => ("message" \notin result.errors
            <=> /\ StrLen(strip(body.message)) >= 1
                /\ StrLen(strip(body.message)) <= MessageBound)

\* C9 (amended): the length bound is checked on the message as received,
\* before trimming: the message is accepted iff its raw length is between 1
\* and the bound and it is not empty after trimming.
C9_LengthBeforeTrim ==
    (Done /\ (IsNav \/ IsChat))
    => ("message" \notin result.errors
            <=> /\ StrLen(body.message) >= 1
                /\ StrLen(body.message) <= MessageBound
                /\ ~AllWhitespace(body.message))

\* C9 witness: a navigation message over the bound only by its surrounding
\* whitespace, rejected
C9_Witness ==
    /\ Done /\ IsNav
    /\ StrLen(body.message) > 1000
    /\ StrLen(strip(body.message)) <= 1000
    /\ StrLen(strip(body.message)) >= 1
    /\ "message" \in result.errors

\* C10: a navigation request is rejected on latitude exactly when the
\* latitude is outside [-90, 90] and on longitude exactly when the longitude
\* is outside [-180, 180] (bounds included in the accepted range); a request
\* with either outside is answered 422 and never handled.
C10_CoordinateRanges ==
    (Done /\ IsNav)
    => LET lat == body.location.latitude
           lon == body.location.longitude
           latOut == lat < -900000 \/ lat > 900000
           lonOut == lon < -1800000 \/ lon > 1800000
       IN  /\ ("location.latitude" \in result.errors) <=> latOut
           /\ ("location.longitude" \in result.errors) <=> lonOut
           /\ (latOut \/ lonOut)
                => /\ result.kind = "ValidationError"
                   /\ result.status = 422
                   /\ result.request = None
                   /\ result.stages = <<"validate">>

\* C10 witness: latitude on its upper bound passes while longitude just
\* over its upper bound is rejected
C10_Witness ==
    /\ Done /\ IsNav
    /\ body.location.latitude = 900000
    /\ body.location.longitude = 1800001
    /\ result.errors = {"location.longitude"}
    /\ result.status = 422


C12_NavigationHealth ==
    (Done /\ op = "navigation_health_check")
    => LET built == NavigationChatRequest(body)
           ran == generate_navigation_response(Val(result.request), upstream)
           health == Val(result.content)
       IN  /\ built.ok /\ result.request = built.obj
           /\ result.kind = "response"
           /\ result.status = 200
           /\ IsSome(result.content)
           /\ health.status \in {"healthy", "unhealthy"}
           /\ (health.status = "healthy") <=> ~ran.raised
           /\ ran.raised => health.error = Some(ran.exc)
           /\ result.stages[1] = "validate"

\* C12 witness: a navigation health check whose pipeline raised, answered
\* "unhealthy" with the error text
C12_Witness ==
    /\ Done /\ op = "navigation_health_check"
    /\ generate_navigation_response(Val(result.request), upstream).raised
    /\ Val(result.content).status = "unhealthy"
    /\ IsSome(Val(result.content).error)
    /\ Val(Val(result.content).error) # <<>>


\* C13: when the environment gives no API key or an empty one, a model name
\* outside the supported list, a port outside 1024..65535, a temperature
\* outside [0.0, 1.0] or a max-token count outside 1..8000, the process
\* never gets past startup: no handler ever runs in it.  A process that
\* serves has a Settings object within all of these bounds.
C13_StartupAborts ==
    LET given(o, S) == IsSome(o) => Val(o) \in S
        well_configured ==
            /\ IsSome(environ.GOOGLE_API_KEY) /\ Val(environ.GOOGLE_API_KEY) # ""
            /\ given(environ.GOOGLE_AI_MODEL,
                     {"gemini-1.5-flash", "gemini-1.5-pro", "gemini-pro",
                      "gemini-pro-vision"})
            /\ given(environ.PORT, 1024..65535)
            /\ given(environ.DEFAULT_TEMPERATURE, 0..10)
            /\ given(environ.DEFAULT_MAX_TOKENS, 1..8000)
    IN  /\ ~well_configured
            => /\ pc \in {"starting", "aborted"}
               /\ op = "none" /\ result = NoResult /\ settings = NoSettings
        /\ pc \in {"idle", "done"}
            => /\ settings.google_api_key # ""
               /\ settings.google_ai_model \in valid_models
               /\ settings.port \in 1024..65535
               /\ settings.default_temperature \in 0..10
               /\ settings.default_max_tokens \in 1..8000

\* C13 witness: a process started with an empty GOOGLE_API_KEY and nothing
\* else wrong has aborted
C13_Witness ==
    /\ pc = "aborted"
    /\ environ = Environ(Some(""), None, None, None, None)


\* C14: the prompt sent for a generic chat message is the result of exactly
\* one rewrite of the trimmed message, chosen in this order: fewer than 10
\* characters, the short-question wrapper; more than 500, the summarize
\* wrapper around the first 500 characters followed by "..."; a fact-check
\* keyword, the fact wrapper; an opinion keyword, the opinion wrapper; an
\* explanation keyword, the explanation wrapper; a comparison keyword (in
\* any case), the comparison wrapper; otherwise the message itself.  A
\* short or over-long message that holds a keyword gets only the length
\* rewrite.
C14_RewritePrecedence ==
    (Handled /\ IsChat)
    => LET m == Val(result.request).message
           p == result.sent[1].user
           has(K) == \E i \in 1..Len(m) : m[i].k = "lit" /\ m[i].w \in K
           first500 == SubSeq(p, 2, Len(p) - 1)
       IN  /\ Len(result.sent) = 1
           /\ IF StrLen(m) < 10 THEN p = <<LIT("short wrapper")>> \o m
              ELSE IF StrLen(m) > 500
              THEN /\ Len(p) >= 3
                   /\ p[1] = LIT("long wrapper") /\ p[Len(p)] = LIT("...")
                   /\ StrLen(first500) = 500
                   /\ \A i \in 1..(Len(first500) - 1) : first500[i] = m[i]
                   /\ \A i \in 1..Len(first500) : first500[i].k \in {m[i].k, "txt"}
              ELSE IF has({"majnayo", "majneunga", "jeonghwakhanga", "sasiringa"})
              THEN p = <<LIT("fact wrapper")>> \o m
              ELSE IF has({"uigyeon", "saenggak"})
              THEN p = <<LIT("opinion wrapper")>> \o m
              ELSE IF has({"seolmyeong", "ihae", "allyeojuseyo", "mueosinga"})
              THEN p = <<LIT("explain wrapper")>> \o m
              ELSE IF has({"chai", "bigyo", "vs", "versus", "VS", "VERSUS"})
              THEN p = <<LIT("compare wrapper")>> \o m
              ELSE p = m

\* C14 witness: a message of 9 characters that holds a fact-check keyword
\* was sent in the short-question wrapper
C14_Witness ==
    /\ Handled /\ IsChat
    /\ StrLen(Val(result.request).message) = 9
    /\ Val(result.request).message[1] = LIT("majnayo")
    /\ result.sent[1].user = <<LIT("short wrapper")>> \o Val(result.request).message


Situations ==
    {[type |-> "home_conversation", urgency |-> "low", needs_reassurance |-> FALSE,
      suggested_actions |-> <<"general_conversation", "provide_guidance">>],
     [type |-> "route_deviation", urgency |-> "medium", needs_reassurance |-> TRUE,
      suggested_actions |-> <<"recalculate_route", "find_nearby_landmarks",
                              "provide_step_by_step_guidance">>],
     [type |-> "missed_transport", urgency |-> "medium", needs_reassurance |-> TRUE,
      suggested_actions |-> <<"find_next_transport", "suggest_alternative_routes",
                              "provide_wait_time_info">>],
     [type |-> "emergency", urgency |-> "high", needs_reassurance |-> TRUE,
      suggested_actions |-> <<"emergency_help", "find_safe_location",
                              "contact_emergency_services">>],
     [type |-> "unknown", urgency |-> "low", needs_reassurance |-> TRUE,
      suggested_actions |-> <<>>]}

C17_AtMostOneUpstreamCall ==
    Done
    => /\ Len(result.sent) <= 1
       /\ (IsChat /\ Handled /\ ~upstream.ok)
            => /\ Len(result.sent) = 1
               /\ result.kind = "Exception"
               /\ result.detail = <<"Google AI Studio tongsin oryu: ">> \o upstream.error
               /\ result.content = None
               /\ result.stages = <<"validate", "template", "delegate">>
       /\ (IsNav /\ result.sent # <<>> /\ ~upstream.ok)
            => /\ result.kind = "HTTPException"
               /\ result.content = None
               /\ ContainsText(result.detail, upstream.error)

\* C17 witness: a generic chat request whose only upstream call raised ended
\* in the wrapped error
C17_Witness ==
    /\ Done /\ IsChat
    /\ ~upstream.ok
    /\ Len(result.sent) = 1
    /\ result.kind = "Exception"
    /\ result.detail = <<"Google AI Studio tongsin oryu: ", "429 quota exceeded">>


C19_OrderedPass ==
    (Done /\ IsNav)
    => LET order == <<"validate", "classify", "template", "delegate", "wrap">>
           stages == result.stages
       IN  /\ Len(stages) \in 1..Len(order)
           /\ stages = SubSeq(order, 1, Len(stages))
           /\ (result.kind = "ValidationError") <=> ~NavigationChatRequest(body).ok
           /\ result.kind = "ValidationError"
                => /\ result.status = 422
                   /\ stages = <<"validate">>
                   /\ result.situation = None
                   /\ result.sent = <<>>
           /\ result.status = 500 => NavigationChatRequest(body).ok
           /\ result.sent # <<>>
                => /\ IsSome(result.request)
                   /\ IsSome(result.situation)
                   /\ Len(stages) >= 4

\* C19 witness: a navigation request with a blank message went through
\* validate alone and was answered 422
C19_Witness ==
    /\ Done /\ IsNav
    /\ AllWhitespace(body.message)
    /\ result.kind = "ValidationError"
    /\ result.status = 422
    /\ result.stages = <<"validate">>
    /\ result.sent = <<>>

\* C20 (as claimed): the context block of a handled navigation request
\* starts with the location line and ends with the closing instruction; for
\* every situation type but unknown, the line of that type comes directly
\* before the closing instruction, and for unknown there is no such line.
C20_ContextBlockFrame ==
    (Handled /\ IsNav)
    => /\ Len(result.sent) = 1
       /\ IsSome(result.situation)
       /\ LET c == result.sent[1].context
              type == Val(result.situation).type
              line == CASE type = "home_conversation" -> "sanghwang: hom hwamyeon ilban daehwa"
                        [] type = "route_deviation" -> "sanghwang: gireul italham"
                        [] type = "missed_transport" -> "sanghwang: gyotongsudan nohchim"
                        [] type = "emergency" -> "sanghwang: gingeupsanghwang"
                        [] OTHER -> ""
              situation_lines == {"sanghwang: hom hwamyeon ilban daehwa",
                                  "sanghwang: gireul italham",
                                  "sanghwang: gyotongsudan nohchim",
                                  "sanghwang: gingeupsanghwang"}
          IN  /\ Len(c) >= 4
              /\ c[1].id = "wichi"
              /\ c[1].nums = <<body.location.latitude, body.location.longitude>>
              /\ c[Len(c)].id = "jungyo: chuga jilmun eopsi"
              /\ IF type = "unknown"
                 THEN \A i \in 1..Len(c) : c[i].id \notin situation_lines
                 ELSE c[Len(c) - 1].id = line


\* C21 (as claimed): the context block of a handled navigation request holds
\* its lines in the order location, mode, destination, user context,
\* situation line.  The mode line is the transportation label when the mode
\* is not "홈" and the general-conversation note otherwise, never both.  The
\* destination lines are the address and the instruction to name it when
\* destination_address is present and non-empty, and otherwise the
\* no-destination line and the instruction to give general help-seeking
\* guidance, never both.
C21_ContextBlockVariants ==
    (Handled /\ IsNav)
    => /\ Len(result.sent) = 1
       /\ LET c == result.sent[1].context
              ids == {c[i].id : i \in 1..Len(c)}
              home == body.mode = Some(HomeMode)
              has_destination ==
                  /\ IsSome(body.destination_address)
                  /\ StrLen(Val(body.destination_address)) > 0
              has_context ==
                  /\ IsSome(body.user_context)
                  /\ StrLen(Val(body.user_context)) > 0
              fixed == IF has_context THEN 5 ELSE 4
          IN  /\ Len(c) \in {fixed + 1, fixed + 2}
              /\ c[1].id = "wichi"
              /\ IF home
                 THEN c[2].id = "sanghwang: hom hwamyeon" /\ "idongsudan" \notin ids
                 ELSE c[2].id = "idongsudan" /\ "sanghwang: hom hwamyeon" \notin ids
              /\ IF has_destination
                 THEN /\ c[3].id = "mokjeokji"
                      /\ c[3].text = Val(body.destination_address)
                      /\ c[4].id = "jungyo: mokjeokji jeongbo isseum"
                      /\ ids \cap {"mokjeokji: jeongbo eopseum",
                                   "jungyo: mokjeokji jeongbo eopseum"} = {}
                 ELSE /\ c[3].id = "mokjeokji: jeongbo eopseum"
                      /\ c[4].id = "jungyo: mokjeokji jeongbo eopseum"
                      /\ ids \cap {"mokjeokji", "jungyo: mokjeokji jeongbo isseum"} = {}
              /\ has_context
                   => c[5].id = "sanghwang" /\ c[5].text = Val(body.user_context)
              /\ ~has_context => "sanghwang" \notin ids
              /\ Len(c) = fixed + 2
                   => c[fixed + 1].id \in {"sanghwang: hom hwamyeon ilban daehwa",
                                           "sanghwang: gireul italham",
                                           "sanghwang: gyotongsudan nohchim",
                                           "sanghwang: gingeupsanghwang"}
              /\ c[Len(c)].id = "jungyo: chuga jilmun eopsi"

====
